---- MODULE Spec2Model ----
(***************************************************************************)
(* Model of the SD-JWT core: the object encoder (src/src/encoder.rs), the  *)
(* SD-JWT container and its presentation builder (src/src/sd_jwt.rs) and   *)
(* the hasher capability (src/src/hasher.rs).                              *)
(*                                                                         *)
(* JSON values are tagged records [t |-> tag, v |-> payload]:              *)
(*   "str"  a string literal            "bool" a boolean                   *)
(*   "dig"  a string that is the base64url digest of a disclosure under a  *)
(*          hash function: v is [hash, input]                             *)
(*   "arr"  an array (a sequence)       "obj"  an object (a function from  *)
(*                                             keys to values)             *)
(* A JSON object outside a value (serde_json::Map) is the bare function.   *)
(* A Rust String outside a JSON value is [kind |-> "str" or "dig",         *)
(* text |-> payload]; Value::String wraps it and Value::as_str unwraps it. *)
(***************************************************************************)
EXTENDS Integers, Sequences, FiniteSets, TLC

VARIABLES
  pc,        \* position of the driving program
  object,    \* SdObjectEncoder.object
  nsalt,     \* number of salts drawn for disclosures that are in use
  salt_length, \* SdObjectEncoder.salt_length
  issued,    \* the successful encoder calls that made disclosures, in call order
  last,      \* the value the last call returned and its arguments; NoCall when
             \* it returned nothing or the caller has taken the value
  given,     \* the value the program started from (object, SdJwt or text);
             \* once into_presentation is called, the SdJwt it was called on
  sd_jwt,    \* the SdJwt value at hand (SdJwtPresentationBuilder.sd_jwt)
  builder,   \* the other fields of SdJwtPresentationBuilder
  out,       \* what finish() returned
  text       \* the compact serialization at hand

vars == <<pc, object, nsalt, salt_length, issued, last, given, sd_jwt, builder, out, text>>

(* ------------------------------ bounds -------------------------------- *)
MaxDisc == 2       \* disclosures (real or decoy) one encoder creates
MaxPathLen == 2    \* segments of an encoder path
MaxIndex == 2      \* largest element_index tried
MaxDecoys == 2     \* largest number_of_decoys tried
MaxSegments == 3   \* segments of a builder path
MaxTextLen == 6    \* symbols of a compact serialization to parse
MaxListed == 2     \* disclosures of an SdJwt value to serialize

(* ----------------------------- constants ------------------------------ *)
DIGESTS_KEY == "_sd"
ARRAY_DIGEST_KEY == "..."
DEFAULT_SALT_SIZE == 30
SD_ALG_KEY == "_sd_alg"
SHA_ALG_NAME_512 == "sha-512"    \* the default as it would be if it named SHA-512
SHA_ALG_NAME == "sha-256"

(* ---------------------------- JSON values ----------------------------- *)
Str(s) == [t |-> "str", v |-> s]
Bool(b) == [t |-> "bool", v |-> b]
Arr(s) == [t |-> "arr", v |-> s]
Obj(m) == [t |-> "obj", v |-> m]

EmptyMap == [k \in {} |-> Str("")]

NoSdJwt == [none |-> TRUE]       \* no SdJwt at hand
NoBuilder == [none |-> TRUE]     \* no builder at hand

IsStr(val) == val.t \in {"str", "dig"}       \* Value::as_str is Some
ValueString(s) == [t |-> s.kind, v |-> s.text]            \* Value::String(s)
AsStr(val) == [kind |-> val.t, text |-> val.v]            \* Value::as_str, when Some
IsArr(val) == val.t = "arr"                  \* Value::as_array is Some
IsObj(val) == val.t = "obj"                  \* Value::as_object is Some

Has(m, k) == k \in DOMAIN m                  \* Map::get is Some
MapRemove(m, k) == [x \in (DOMAIN m) \ {k} |-> m[x]]
MapInsert(m, k, val) == [x \in (DOMAIN m) \cup {k} |-> IF x = k THEN val ELSE m[x]]

(* The keys of a serde_json::Map (a BTreeMap) in iteration order. *)
KeyOrder ==
  <<"...", "0", "1", "2", "3", "_sd", "_sd_alg", "a", "abc", "b", "c",
    "claim1", "claim12", "claim2", "id">>
KeysOf(m) == SelectSeq(KeyOrder, LAMBDA k : k \in DOMAIN m)

(* --------------------- Disclosure and Hasher -------------------------- *)
(* Disclosure::new(salt, claim_name, claim_value); claim_name is <<>> for  *)
(* None and <<name>> for Some(name).                                       *)
Disclosure(salt, name, value) == [salt |-> salt, claim_name |-> name, claim_value |-> value]

(* A Hasher: what alg_name() returns and the hash function digest()       *)
(* computes. Sha256Hasher is the crate's; Sha512Hasher is a caller's        *)
(* implementation of the trait for SHA-512.                                *)
Sha256Hasher == [alg_name |-> SHA_ALG_NAME, digest |-> "SHA-256"]
Sha512Hasher == [alg_name |-> "sha-512", digest |-> "SHA-512"]

(* Hasher::encoded_digest of the disclosure's text: base64url of           *)
(* hasher.digest(text). A hash function is collision free, and two hash    *)
(* functions give different digests of the same text: the digest string is *)
(* determined by, and determines, the function and the text hashed, which  *)
(* is the JSON array of the disclosure's three fields.                     *)
encoded_digest(hasher, disclosure) ==
  [kind |-> "dig", text |-> [hash |-> hasher.digest, input |-> disclosure]]

(* ------------------------------ Encoder ------------------------------- *)
(* gen_rand(len): a random alphanumeric string of `len` characters; the    *)
(* n-th draw gives a string no other draw gives.                           *)
gen_rand(len, n) == [len |-> len, n |-> n]


(* add_digest_to_object: push on an `_sd` array, create it when absent.    *)
add_digest_to_object(m, digest) ==
  IF Has(m, DIGESTS_KEY)
    THEN IF IsArr(m[DIGESTS_KEY])
           THEN [result |-> "Ok",
                 map |-> MapInsert(m, DIGESTS_KEY,
                                   Arr(Append(m[DIGESTS_KEY].v, ValueString(digest))))]
           ELSE [result |-> "DataTypeMismatch", map |-> m]
    ELSE [result |-> "Ok", map |-> MapInsert(m, DIGESTS_KEY, Arr(<<ValueString(digest)>>))]

(* get_target_property_and_its_parent: the loop over index 1..len-1, with  *)
(* the parent given by the keys that lead to it from the root (`at`).      *)
RECURSIVE target_loop(_, _, _, _)
target_loop(parent, path, index, at) ==
  IF index > Len(path) - 1
    THEN [result |-> "Ok", target |-> path[index], parent |-> at]
    ELSE IF ~Has(parent, path[index])
      THEN [result |-> "InvalidPath", target |-> path[index], parent |-> at]
      ELSE IF IsObj(parent[path[index]])
        THEN target_loop(parent[path[index]].v, path, index + 1, Append(at, path[index]))
        ELSE [result |-> "InvalidPath", target |-> path[index], parent |-> at]

(* The lookup as it would be if it took the last segment as a key of the  *)
(* top level without walking the segments before it.                       *)
get_target_without_walk(json, path) ==
  [result |-> "Ok", target |-> path[Len(path)], parent |-> <<>>]

get_target_property_and_its_parent(json, path) == target_loop(json, path, 1, <<>>)

(* The map reached from `m` by the keys `at` (all of them objects). *)
RECURSIVE MapAt(_, _)
MapAt(m, at) == IF at = <<>> THEN m ELSE MapAt(m[Head(at)].v, Tail(at))

(* Writing through the `&mut` parent reference: `m` with the map at `at`   *)
(* replaced by `new`.                                                      *)
RECURSIVE WriteAt(_, _, _)
WriteAt(m, at, new) ==
  IF at = <<>> THEN new
  ELSE MapInsert(m, Head(at), Obj(WriteAt(m[Head(at)].v, Tail(at), new)))

(* SdObjectEncoder::conceal(path, None) with the fresh salt `salt`. *)
EncConceal(hasher, obj, path, salt) ==
  IF path = <<>>
    THEN [result |-> "InvalidPath", object |-> obj, disclosure |-> <<>>]
    ELSE LET tp == get_target_property_and_its_parent(obj, path) IN
      IF tp.result # "Ok"
        THEN [result |-> "InvalidPath", object |-> obj, disclosure |-> <<>>]
        ELSE LET parent == MapAt(obj, tp.parent) IN
          IF ~Has(parent, tp.target)
            THEN [result |-> "InvalidPath", object |-> obj, disclosure |-> <<>>]
            ELSE LET removed == MapRemove(parent, tp.target)
                     disclosure == Disclosure(salt, <<tp.target>>, parent[tp.target])
                     added == add_digest_to_object(removed, encoded_digest(hasher, disclosure))
                 IN IF added.result = "Ok"
                      THEN [result |-> "Ok",
                            object |-> WriteAt(obj, tp.parent, added.map),
                            disclosure |-> <<disclosure>>]
                      ELSE [result |-> added.result,
                            object |-> WriteAt(obj, tp.parent, removed),
                            disclosure |-> <<>>]

(* The error as it would be if it reported the position counted from 1.   *)
IndexOutofBoundsOneBased(obj, element_index) ==
  [result |-> "IndexOutofBounds", object |-> obj, disclosure |-> <<>>,
   index |-> element_index + 1]

(* Err(Error::IndexOutofBounds(element_index)): the error carries the     *)
(* index asked for; the object is as it was.                               *)
IndexOutofBounds(obj, element_index) ==
  [result |-> "IndexOutofBounds", object |-> obj, disclosure |-> <<>>,
   index |-> element_index]

(* conceal_array_entry as it would be if it removed the element and pushed  *)
(* the placeholder at the end of the array instead of writing the slot.    *)
ConcealArrayEntryPushing(hasher, obj, path, element_index, salt) ==
  IF path = <<>>
    THEN [result |-> "InvalidPath", object |-> obj, disclosure |-> <<>>]
    ELSE LET tp == get_target_property_and_its_parent(obj, path) IN
      IF tp.result # "Ok"
        THEN [result |-> "InvalidPath", object |-> obj, disclosure |-> <<>>]
        ELSE LET parent == MapAt(obj, tp.parent) IN
          IF ~Has(parent, tp.target) \/ ~IsArr(parent[tp.target])
            THEN [result |-> "InvalidPath", object |-> obj, disclosure |-> <<>>]
            ELSE LET array == parent[tp.target].v IN
              IF element_index < Len(array)
                THEN LET disclosure == Disclosure(salt, <<>>, array[element_index + 1])
                         tripledot == Obj([k \in {ARRAY_DIGEST_KEY} |->
                                             ValueString(encoded_digest(hasher, disclosure))])
                         array2 == Append(SubSeq(array, 1, element_index)
                                            \o SubSeq(array, element_index + 2, Len(array)),
                                          tripledot)
                     IN [result |-> "Ok",
                         object |-> WriteAt(obj, tp.parent, MapInsert(parent, tp.target, Arr(array2))),
                         disclosure |-> <<disclosure>>]
                ELSE [result |-> "IndexOutofBounds", object |-> obj, disclosure |-> <<>>]

(* SdObjectEncoder::conceal_array_entry(path, element_index, None). *)
EncConcealArrayEntry(hasher, obj, path, element_index, salt) ==
  IF path = <<>>
    THEN [result |-> "InvalidPath", object |-> obj, disclosure |-> <<>>]
    ELSE LET tp == get_target_property_and_its_parent(obj, path) IN
      IF tp.result # "Ok"
        THEN [result |-> "InvalidPath", object |-> obj, disclosure |-> <<>>]
        ELSE LET parent == MapAt(obj, tp.parent) IN
          IF ~Has(parent, tp.target) \/ ~IsArr(parent[tp.target])
            THEN [result |-> "InvalidPath", object |-> obj, disclosure |-> <<>>]
            ELSE LET array == parent[tp.target].v IN
              IF element_index < Len(array)
                THEN LET disclosure == Disclosure(salt, <<>>, array[element_index + 1])
                         tripledot == Obj([k \in {ARRAY_DIGEST_KEY} |->
                                             ValueString(encoded_digest(hasher, disclosure))])
                         array2 == [array EXCEPT ![element_index + 1] = tripledot]
                     IN [result |-> "Ok",
                         object |-> WriteAt(obj, tp.parent, MapInsert(parent, tp.target, Arr(array2))),
                         disclosure |-> <<disclosure>>]
                ELSE IndexOutofBounds(obj, element_index)

(* random_digest(hasher, salt_len, true): a decoy disclosure without a     *)
(* claim name and its digest.                                              *)
random_digest(hasher, salt_len, n) ==
  encoded_digest(hasher, Disclosure(gen_rand(salt_len, n), <<>>, Str("decoy")))

(* SdObjectEncoder::add_decoy(path). *)
add_decoy(hasher, obj, path, salt_len, n) ==
  IF path = <<>>
    THEN LET added == add_digest_to_object(obj, random_digest(hasher, salt_len, n))
         IN [result |-> added.result, object |-> added.map]
    ELSE LET tp == get_target_property_and_its_parent(obj, path) IN
      IF tp.result # "Ok"
        THEN [result |-> "InvalidPath", object |-> obj]
        ELSE LET parent == MapAt(obj, tp.parent) IN
          IF ~Has(parent, tp.target)
            THEN [result |-> "InvalidPath", object |-> obj]
            ELSE LET value == parent[tp.target] IN
              IF IsObj(value)
                THEN LET added == add_digest_to_object(value.v, random_digest(hasher, salt_len, n))
                     IN [result |-> added.result,
                         object |-> WriteAt(obj, Append(tp.parent, tp.target), added.map)]
                ELSE IF IsArr(value)
                  THEN LET tripledot == Obj([k \in {ARRAY_DIGEST_KEY} |->
                                           ValueString(random_digest(hasher, salt_len, n))])
                       IN [result |-> "Ok",
                           object |-> WriteAt(obj, tp.parent,
                                        MapInsert(parent, tp.target, Arr(Append(value.v, tripledot))))]
                  ELSE [result |-> "InvalidPath", object |-> obj]

(* SdObjectEncoder::add_decoys(path, number_of_decoys): the loop, stopped  *)
(* by the first error; `made` counts the decoys inserted.                  *)
RECURSIVE decoy_loop(_, _, _, _, _, _, _)
decoy_loop(hasher, obj, path, todo, salt_len, n, made) ==
  IF todo = 0
    THEN [result |-> "Ok", object |-> obj, made |-> made]
    ELSE LET one == add_decoy(hasher, obj, path, salt_len, n) IN
      IF one.result = "Ok"
        THEN decoy_loop(hasher, one.object, path, todo - 1, salt_len, n + 1, made + 1)
        ELSE [result |-> one.result, object |-> one.object, made |-> made]

EncAddDecoys(hasher, obj, path, number_of_decoys, salt_len, n) ==
  decoy_loop(hasher, obj, path, number_of_decoys, salt_len, n, 0)

(* SdObjectEncoder::add_sd_alg_property(): Map::insert gives the value the *)
(* key had, if any.                                                        *)
add_sd_alg_property(obj, alg_name) ==
  [object |-> MapInsert(obj, SD_ALG_KEY, Str(alg_name)),
   previous |-> IF Has(obj, SD_ALG_KEY) THEN <<obj[SD_ALG_KEY]>> ELSE <<>>]

(* SdObjectEncoder::set_salt_length(salt_length): 0 is not set. *)
set_salt_length(current, new_length) == IF new_length > 0 THEN new_length ELSE current

(* -------------------- SdJwt and presentation builder ------------------ *)
(* IndexMap<String, Disclosure>: a sequence of entries with distinct keys. *)
IndexGet(dm, digest) ==
  LET hits == SelectSeq(dm, LAMBDA e : e.digest = digest)
  IN IF hits = <<>> THEN <<>> ELSE <<hits[1].disclosure>>

IndexInsert(dm, digest, disclosure) ==
  IF IndexGet(dm, digest) = <<>>
    THEN Append(dm, [digest |-> digest, disclosure |-> disclosure])
    ELSE [i \in 1..Len(dm) |->
            IF dm[i].digest = digest THEN [digest |-> digest, disclosure |-> disclosure]
            ELSE dm[i]]

IndexShiftRemove(dm, digest) == SelectSeq(dm, LAMBDA e : e.digest # digest)

IndexValues(dm) == [i \in 1..Len(dm) |-> dm[i].disclosure]

(* The `.map(|d| (hasher.encoded_digest(d.as_str()), d)).collect()` of new. *)
RECURSIVE index_collect(_, _, _)
index_collect(hasher, disclosures, dm) ==
  IF disclosures = <<>> THEN dm
  ELSE index_collect(hasher, Tail(disclosures),
                     IndexInsert(dm, encoded_digest(hasher, Head(disclosures)),
                                 Head(disclosures)))

(* The strings of `object["_sd"]` when that is an array, else nothing. *)
SdStrings(m) ==
  IF Has(m, DIGESTS_KEY) /\ IsArr(m[DIGESTS_KEY])
    THEN LET strs == SelectSeq(m[DIGESTS_KEY].v, IsStr)
         IN [i \in 1..Len(strs) |-> AsStr(strs[i])]
    ELSE <<>>

(* find_disclosure: <<digest>> for Some(digest), <<>> for None. *)
find_disclosure(m, key, dm) ==
  LET named == SelectSeq(SdStrings(m),
                 LAMBDA digest : LET d == IndexGet(dm, digest)
                                 IN d # <<>> /\ d[1].claim_name = <<key>>)
  IN IF named # <<>> THEN <<named[1]>>
     ELSE IF Has(m, ARRAY_DIGEST_KEY) /\ IsStr(m[ARRAY_DIGEST_KEY]) /\ Cardinality(DOMAIN m) = 1
       THEN <<AsStr(m[ARRAY_DIGEST_KEY])>>
       ELSE <<>>

(* get_all_sub_disclosures, with its two iterations over the children. *)
RECURSIVE get_all_sub_disclosures(_, _), sub_of_values(_, _), sub_of_entries(_, _)
get_all_sub_disclosures(start, dm) ==
  IF IsObj(start)
    THEN LET direct_sds == SelectSeq(SdStrings(start.v),
                                     LAMBDA digest : IndexGet(dm, digest) # <<>>)
             keys == KeysOf(start.v)
             sub_sds == sub_of_values([i \in 1..Len(keys) |-> start.v[keys[i]]], dm)
         IN direct_sds \o sub_sds
    ELSE IF IsArr(start) THEN sub_of_entries(start.v, dm)
    ELSE <<>>

sub_of_values(values, dm) ==
  IF values = <<>> THEN <<>>
  ELSE get_all_sub_disclosures(Head(values), dm) \o sub_of_values(Tail(values), dm)

sub_of_entries(arr, dm) ==
  IF arr = <<>> THEN <<>>
  ELSE LET value == Head(arr)
           here == IF IsObj(value) /\ Has(value.v, ARRAY_DIGEST_KEY)
                                   /\ IsStr(value.v[ARRAY_DIGEST_KEY])
                     THEN IF IndexGet(dm, AsStr(value.v[ARRAY_DIGEST_KEY])) # <<>>
                            THEN <<AsStr(value.v[ARRAY_DIGEST_KEY])>>
                            ELSE <<>>
                     ELSE get_all_sub_disclosures(value, dm)
       IN here \o sub_of_entries(Tail(arr), dm)

(* str::parse::<usize> on the path segments in use; -1 when it fails. *)
ParseUsize(segment) ==
  CASE segment = "0" -> 0
    [] segment = "1" -> 1
    [] segment = "2" -> 2
    [] segment = "3" -> 3
    [] OTHER -> -1

InvalidPath == [result |-> "InvalidPath", digests |-> <<>>]
Panicked == [result |-> "panic", digests |-> <<>>]

(* The target found at the end of the path: collect its sub-disclosures,   *)
(* then the digest itself. `disclosures.get(digest).unwrap()` panics on a  *)
(* digest that is not in the map.                                          *)
conceal_target(found, dm) ==
  IF found = <<>> THEN InvalidPath
  ELSE LET disclosure == IndexGet(dm, found[1]) IN
    IF disclosure = <<>> THEN Panicked
    ELSE [result |-> "Ok",
          digests |-> Append(get_all_sub_disclosures(disclosure[1].claim_value, dm), found[1])]

(* The free function conceal(object, path, disclosures). *)
RECURSIVE conceal(_, _, _)
conceal(value, path, dm) ==
  IF path = <<>> THEN InvalidPath
  ELSE LET element_key == Head(path)
           has_next == Tail(path) # <<>>
       IN
    IF IsObj(value) /\ has_next
      THEN LET found == find_disclosure(value.v, element_key, dm)
               disclosed == IF found = <<>> THEN <<>> ELSE IndexGet(dm, found[1])
           IN IF Has(value.v, element_key)
                THEN conceal(value.v[element_key], Tail(path), dm)
                ELSE IF disclosed = <<>> THEN InvalidPath
                ELSE conceal(disclosed[1].claim_value, Tail(path), dm)
    ELSE IF IsObj(value)
      THEN conceal_target(find_disclosure(value.v, element_key, dm), dm)
    ELSE IF IsArr(value) /\ has_next
      THEN LET index == ParseUsize(element_key) IN
           IF index < 0 \/ ~(Len(value.v) > index) THEN InvalidPath
           ELSE conceal(value.v[index + 1], Tail(path), dm)
    ELSE IF IsArr(value)
      THEN LET index == ParseUsize(element_key) IN
           IF index < 0 \/ ~(Len(value.v) > index) THEN InvalidPath
           ELSE LET entry == value.v[index + 1]
                IN conceal_target(IF IsObj(entry) THEN find_disclosure(entry.v, "", dm)
                                  ELSE <<>>, dm)
    ELSE InvalidPath

(* digests_to_remove ... shift_remove ... removed_disclosures.push *)
RECURSIVE remove_digests(_, _)
remove_digests(b, digests) ==
  IF digests = <<>> THEN b
  ELSE LET hit == IndexGet(b.disclosures, Head(digests)) IN
       remove_digests(
         IF hit = <<>> THEN b
         ELSE [b EXCEPT !.disclosures = IndexShiftRemove(b.disclosures, Head(digests)),
                        !.removed_disclosures = Append(b.removed_disclosures, hit[1])],
         Tail(digests))

(* SdJwtPresentationBuilder::conceal(path), path given by its segments. *)
BuilderConceal(b, path) ==
  LET r == conceal(b.object, path, b.disclosures)
  IN [result |-> r.result, digests |-> r.digests,
      builder |-> IF r.result = "Ok" THEN remove_digests(b, r.digests) ELSE b]

(* SdJwtClaims: `_sd`, `_sd_alg`, `cnf` and the flattened other properties. *)
SdJwtClaims(sd, sd_alg, cnf, properties) ==
  [sd |-> sd, sd_alg |-> sd_alg, cnf |-> cnf, properties |-> properties]

(* SdJwt::new(jwt, disclosures, key_binding_jwt). *)
SdJwt(jwt, disclosures, key_binding_jwt) ==
  [jwt |-> jwt, disclosures |-> disclosures, key_binding_jwt |-> key_binding_jwt]

(* SdJwt::claims_mut(), then a write through the &mut SdJwtClaims it       *)
(* returns: an assignment to one of the public fields, or, through         *)
(* DerefMut, Map::insert(key, value) on the other properties.              *)
claims_mut(sd, write) ==
  CASE write.field = "_sd" -> [sd EXCEPT !.jwt.claims.sd = write.value]
    [] write.field = "_sd_alg" -> [sd EXCEPT !.jwt.claims.sd_alg = write.value]
    [] write.field = "cnf" -> [sd EXCEPT !.jwt.claims.cnf = write.value]
    [] write.field = "properties" ->
         [sd EXCEPT !.jwt.claims.properties = MapInsert(@, write.key, write.value)]

(* SdJwtPresentationBuilder::new(sd_jwt, hasher). *)
BuilderNew(sd, hasher) ==
  LET required_hasher == IF sd.jwt.claims.sd_alg = <<>> THEN SHA_ALG_NAME
                         ELSE sd.jwt.claims.sd_alg[1]
  IN IF required_hasher # hasher.alg_name
       THEN [result |-> "InvalidHasher", sd_jwt |-> sd, builder |-> NoBuilder]
       ELSE [result |-> "Ok",
             sd_jwt |-> [sd EXCEPT !.disclosures = <<>>,
                                   !.jwt.claims.sd = <<>>,
                                   !.jwt.claims.properties = EmptyMap],
             builder |-> [disclosures |-> index_collect(hasher, sd.disclosures, <<>>),
                          removed_disclosures |-> <<>>,
                          object |-> Obj(MapInsert(sd.jwt.claims.properties, DIGESTS_KEY,
                                           Arr([i \in 1..Len(sd.jwt.claims.sd) |->
                                                  ValueString(sd.jwt.claims.sd[i])])))]]

(* attach_key_binding_jwt as it would be if it returned the builder        *)
(* without storing the key-binding JWT.                                    *)
attach_key_binding_jwt_dropped(sd, kb_jwt) == sd

(* SdJwtPresentationBuilder::attach_key_binding_jwt(kb_jwt). *)
attach_key_binding_jwt(sd, kb_jwt) == [sd EXCEPT !.key_binding_jwt = <<kb_jwt>>]

(* SdJwtPresentationBuilder::finish(). *)
BuilderFinish(sd, b) ==
  IF sd.jwt.claims.cnf # <<>> /\ sd.key_binding_jwt = <<>>
    THEN [result |-> "MissingKeyBindingJwt", ret |-> <<>>]
    ELSE IF ~IsObj(b.object) THEN [result |-> "panic", ret |-> <<>>]
    ELSE LET obj == b.object.v
             sd_value == IF Has(obj, DIGESTS_KEY) THEN obj[DIGESTS_KEY] ELSE Arr(<<>>)
         IN IF ~IsArr(sd_value) \/ \E i \in 1..Len(sd_value.v) : ~IsStr(sd_value.v[i])
              THEN [result |-> "panic", ret |-> <<>>]
              ELSE [result |-> "Ok",
                    ret |-> <<[sd EXCEPT
                                 !.disclosures = IndexValues(b.disclosures),
                                 !.jwt.claims.sd = [i \in 1..Len(sd_value.v) |-> AsStr(sd_value.v[i])],
                                 !.jwt.claims.properties = MapRemove(obj, DIGESTS_KEY)],
                              b.removed_disclosures>>]

(* ------------------------- the encoder program ------------------------ *)
(* The object of the encoder's tests, and one whose `_sd` is not an array. *)
TestObject ==
  [k \in {"id", "claim1", "claim2"} |->
     CASE k = "id" -> Str("did:value")
       [] k = "claim1" -> Obj([j \in {"abc"} |-> Bool(TRUE)])
       [] k = "claim2" -> Arr(<<Str("arr-value1"), Str("arr-value2")>>)]

BadSdObject ==
  [k \in {"_sd", "id", "claim1"} |->
     CASE k = "_sd" -> Str("not-an-array")
       [] k = "id" -> Str("did:value")
       [] k = "claim1" -> Obj([j \in {"abc"} |-> Bool(TRUE)])]

BaseObjects == {TestObject, BadSdObject}

EncKeys == {"id", "claim1", "abc", "claim2", "claim12", "_sd"}
EncPaths == UNION {[1..n -> EncKeys] : n \in 0..MaxPathLen}

(* The caller is between two calls at "encoder" while the object is what  *)
(* the successful calls made of the one given, and at "encoder_any" once a *)
(* call failed after changing it or a write through object_mut() changed   *)
(* it. A call that returns a value leaves the caller holding it in `last`, *)
(* at "..._returned" or, with an Err, at "..._error", until it unwraps it. *)
EncoderPcs == {"encoder", "encoder_any"}
SuccessfulPcs == {"encoder", "encoder_returned", "encoder_error"}
AfterCall(at, result, changed) ==
  IF result = "Ok"
    THEN IF at = "encoder" THEN "encoder_returned" ELSE "encoder_any_returned"
    ELSE IF at = "encoder" /\ ~changed THEN "encoder_error" ELSE "encoder_any_error"

(* The lengths the caller sets, and what it writes through object_mut().   *)
SaltLengths == {0, 16}
DirectWrites == {[key |-> "id", value |-> Str("did:value")]}

NoCall == [op |-> "none", path |-> <<>>, arg |-> -1, result |-> "none", ret |-> <<>>]

(* An encoder made by try_from (or new): its hasher is Sha256Hasher, its   *)
(* salt length the default.                                                *)
EncInit ==
  /\ pc = "encoder"
  /\ object \in BaseObjects
  /\ given = object
  /\ nsalt = 0
  /\ salt_length = DEFAULT_SALT_SIZE
  /\ issued = <<>>
  /\ last = NoCall
  /\ sd_jwt = NoSdJwt
  /\ builder = NoBuilder
  /\ out = <<>>
  /\ text = <<>>

(* encoder.conceal(path, None) *)
Conceal(path) ==
  /\ pc \in EncoderPcs
  /\ nsalt < MaxDisc
  /\ LET r == EncConceal(Sha256Hasher, object, path, gen_rand(salt_length, nsalt + 1)) IN
       /\ object' = r.object
       /\ nsalt' = IF r.result = "Ok" THEN nsalt + 1 ELSE nsalt
       /\ issued' = IF r.result = "Ok"
                      THEN Append(issued, [op |-> "conceal", path |-> path,
                                           disclosure |-> r.disclosure, made |-> 1])
                      ELSE issued
       /\ last' = [op |-> "conceal", path |-> path, arg |-> -1,
                   result |-> r.result, ret |-> r.disclosure]
       /\ pc' = AfterCall(pc, r.result, r.object # object)
  /\ UNCHANGED <<salt_length, given, sd_jwt, builder, out, text>>

(* encoder.conceal_array_entry(path, element_index, None)?; `ret` is the    *)
(* disclosure of Ok, or the index that IndexOutofBounds carries.           *)
ConcealArrayEntry(path, element_index) ==
  /\ pc \in EncoderPcs
  /\ nsalt < MaxDisc
  /\ LET r == EncConcealArrayEntry(Sha256Hasher, object, path, element_index, gen_rand(salt_length, nsalt + 1)) IN
       /\ object' = r.object
       /\ nsalt' = IF r.result = "Ok" THEN nsalt + 1 ELSE nsalt
       /\ issued' = IF r.result = "Ok"
                      THEN Append(issued, [op |-> "conceal_array_entry", path |-> path,
                                           disclosure |-> r.disclosure, made |-> 1])
                      ELSE issued
       /\ last' = [op |-> "conceal_array_entry", path |-> path, arg |-> element_index,
                   result |-> r.result,
                   ret |-> IF r.result = "IndexOutofBounds" THEN <<r.index>> ELSE r.disclosure]
       /\ pc' = AfterCall(pc, r.result, r.object # object)
  /\ UNCHANGED <<salt_length, given, sd_jwt, builder, out, text>>

(* encoder.add_decoys(path, number_of_decoys)? *)
AddDecoys(path, number_of_decoys) ==
  /\ pc \in EncoderPcs
  /\ nsalt + number_of_decoys <= MaxDisc
  /\ LET r == EncAddDecoys(Sha256Hasher, object, path, number_of_decoys, salt_length, nsalt + 1) IN
       /\ object' = r.object
       /\ nsalt' = nsalt + r.made
       /\ issued' = IF r.made > 0
                      THEN Append(issued, [op |-> "add_decoys", path |-> path,
                                           disclosure |-> <<>>, made |-> r.made])
                      ELSE issued
       /\ last' = [op |-> "add_decoys", path |-> path, arg |-> number_of_decoys,
                   result |-> r.result, ret |-> <<>>]
       /\ pc' = AfterCall(pc, r.result, r.object # object)
  /\ UNCHANGED <<salt_length, given, sd_jwt, builder, out, text>>

(* encoder.add_sd_alg_property(), on an encoder made by try_from (its     *)
(* hasher is Sha256Hasher); `ret` is the Option<Value> returned.           *)
AddSdAlgProperty ==
  /\ pc \in EncoderPcs
  /\ LET r == add_sd_alg_property(object, Sha256Hasher.alg_name) IN
       /\ object' = r.object
       /\ last' = [op |-> "add_sd_alg_property", path |-> <<>>, arg |-> -1,
                   result |-> "Ok", ret |-> r.previous]
  /\ pc' = AfterCall(pc, "Ok", FALSE)
  /\ UNCHANGED <<nsalt, salt_length, issued, given, sd_jwt, builder, out, text>>

(* encoder.set_salt_length(new_length); it returns nothing to hold.        *)
SetSaltLength(new_length) ==
  /\ pc \in EncoderPcs
  /\ salt_length' = set_salt_length(salt_length, new_length)
  /\ UNCHANGED <<pc, object, nsalt, issued, last, given, sd_jwt, builder, out, text>>

(* encoder.object_mut().insert(key, value) *)
ObjectMut(write) ==
  /\ pc \in EncoderPcs
  /\ object' = MapInsert(object, write.key, write.value)
  /\ pc' = IF object' # object THEN "encoder_any" ELSE pc
  /\ UNCHANGED <<nsalt, salt_length, issued, last, given, sd_jwt, builder, out, text>>

(* result.unwrap() or result.unwrap_err(): the caller takes the value out  *)
(* of what the call returned and goes on with the same encoder, as the     *)
(* tests do.                                                               *)
Unwrap ==
  /\ pc \in {"encoder_returned", "encoder_error", "encoder_any_returned", "encoder_any_error"}
  /\ pc' = IF pc \in SuccessfulPcs THEN "encoder" ELSE "encoder_any"
  /\ last' = NoCall
  /\ UNCHANGED <<object, nsalt, salt_length, issued, given, sd_jwt, builder, out, text>>

(* The paths given to a call: calls are made between two calls only.      *)
CallPaths == IF pc \in EncoderPcs THEN EncPaths ELSE {}

EncNext ==
  \/ \E path \in CallPaths : Conceal(path)
  \/ \E path \in CallPaths : \E i \in 0..MaxIndex : ConcealArrayEntry(path, i)
  \/ \E path \in CallPaths : \E n \in 1..MaxDecoys : AddDecoys(path, n)
  \/ AddSdAlgProperty
  \/ \E new_length \in SaltLengths : SetSaltLength(new_length)
  \/ \E write \in DirectWrites : ObjectMut(write)
  \/ Unwrap

SpecEncoder == EncInit /\ [][EncNext]_vars

(* --------------------------- the holder program ----------------------- *)
(* Issuer side of NestedInput, by an encoder with the given hasher         *)
(* (with_custom_hasher): c inside b inside a, each concealed, bottom up,   *)
(* then one decoy at the top level; "c" at the top is plain text.          *)
NestedBase ==
  [k \in {"a", "c"} |->
     IF k = "a" THEN Obj([i \in {"b"} |-> Obj([j \in {"c"} |-> Bool(TRUE)])])
     ELSE Str("plain")]
Nested1(hasher) ==
  EncConceal(hasher, NestedBase, <<"a", "b", "c">>, gen_rand(DEFAULT_SALT_SIZE, 1))
Nested2(hasher) ==
  EncConceal(hasher, Nested1(hasher).object, <<"a", "b">>, gen_rand(DEFAULT_SALT_SIZE, 2))
Nested3(hasher) ==
  EncConceal(hasher, Nested2(hasher).object, <<"a">>, gen_rand(DEFAULT_SALT_SIZE, 3))
Nested4(hasher) ==
  EncAddDecoys(hasher, Nested3(hasher).object, <<>>, 1, DEFAULT_SALT_SIZE, 4)
NestedObject(hasher) == Nested4(hasher).object
NestedDisclosures(hasher) ==
  Nested1(hasher).disclosure \o Nested2(hasher).disclosure \o Nested3(hasher).disclosure

(* Issuer side of ArrayInput: the array "a" holds an object whose property *)
(* b was concealed by an encoder of its own, and a literal; entry 0 is     *)
(* concealed and one decoy entry is added.                                 *)
Element1(hasher) ==
  EncConceal(hasher, [k \in {"b"} |-> Bool(TRUE)], <<"b">>, gen_rand(DEFAULT_SALT_SIZE, 1))
ArrayBase(hasher) == [k \in {"a"} |-> Arr(<<Obj(Element1(hasher).object), Str("lit")>>)]
Array2(hasher) ==
  EncConcealArrayEntry(hasher, ArrayBase(hasher), <<"a">>, 0, gen_rand(DEFAULT_SALT_SIZE, 2))
Array3(hasher) ==
  EncAddDecoys(hasher, Array2(hasher).object, <<"a">>, 1, DEFAULT_SALT_SIZE, 3)
ArrayObject(hasher) == Array3(hasher).object
ArrayDisclosures(hasher) == Element1(hasher).disclosure \o Array2(hasher).disclosure

Header == [k \in {"alg"} |-> Str("ES256")]

(* Deserialising the signed payload into Jwt<SdJwtClaims>. *)
ClaimsOf(payload, sd_alg, cnf) ==
  SdJwtClaims(SdStrings(payload), sd_alg, cnf, MapRemove(payload, DIGESTS_KEY))

Issued(payload, disclosures, sd_alg, cnf, kb) ==
  SdJwt([header |-> Header, claims |-> ClaimsOf(payload, sd_alg, cnf)], disclosures, kb)

(* The hashers handed to into_presentation, and the payloads and           *)
(* disclosures an issuer makes with one of them.                           *)
Hashers == {Sha256Hasher, Sha512Hasher}
Payloads(hasher) ==
  {<<NestedObject(hasher), NestedDisclosures(hasher)>>,
   <<ArrayObject(hasher), ArrayDisclosures(hasher)>>}

(* The `_sd_alg` an issuer with the hasher writes: its alg_name, or        *)
(* nothing when that is the default.                                       *)
SdAlgs(hasher) ==
  IF hasher.alg_name = SHA_ALG_NAME THEN {<<>>, <<hasher.alg_name>>}
  ELSE {<<hasher.alg_name>>}
Cnfs == {<<>>, <<"jwk">>}
KeyBindings == {<<>>, <<"kb-jwt">>}

(* SdJwt::parse of a text that lists the first disclosure once more at the *)
(* end: parse keeps every segment.                                         *)
Repeated(disclosures) == Append(disclosures, disclosures[1])
RepeatedInputs ==
  {Issued(NestedObject(Sha256Hasher), Repeated(NestedDisclosures(Sha256Hasher)),
          <<>>, <<>>, <<>>)}

HolderInputs ==
  {Issued(p[1], p[2], alg, cnf, kb) :
     p \in Payloads(Sha256Hasher), alg \in SdAlgs(Sha256Hasher),
     cnf \in Cnfs, kb \in KeyBindings}
  \cup {Issued(p[1], p[2], alg, <<>>, <<>>) :
          p \in Payloads(Sha512Hasher), alg \in SdAlgs(Sha512Hasher)}
  \cup RepeatedInputs

Segments == {"a", "b", "c", "0", "1", "2", "3"}
BuilderPaths == UNION {[1..n -> Segments] : n \in 1..MaxSegments}

(* What the holder writes through claims_mut() before presenting: one of   *)
(* the public fields, or an entry of the other properties (DerefMut).      *)
ClaimsWrites ==
  {[field |-> "_sd_alg", value |-> <<"sha-512">>],
   [field |-> "cnf", value |-> <<"jwk">>],
   [field |-> "_sd", value |-> <<>>],
   [field |-> "properties", key |-> DIGESTS_KEY, value |-> Arr(<<Str("x")>>)],
   [field |-> "properties", key |-> "a", value |-> Str("changed")]}

HolderInit ==
  /\ pc = "holder"
  /\ sd_jwt \in HolderInputs
  /\ given = sd_jwt
  /\ builder = NoBuilder
  /\ out = <<>>
  /\ last = NoCall
  /\ object = EmptyMap
  /\ nsalt = 0
  /\ salt_length = DEFAULT_SALT_SIZE
  /\ issued = <<>>
  /\ text = <<>>

(* sd_jwt.claims_mut().field = ... or sd_jwt.claims_mut().insert(..): the  *)
(* caller holds nothing of what it returns.                                *)
ClaimsMut(write) ==
  /\ pc = "holder"
  /\ sd_jwt' = claims_mut(sd_jwt, write)
  /\ UNCHANGED <<pc, object, nsalt, salt_length, issued, last, given, builder, out, text>>

(* sd_jwt.into_presentation(hasher)? *)
IntoPresentation(hasher) ==
  /\ pc = "holder"
  /\ given' = sd_jwt
  /\ LET r == BuilderNew(sd_jwt, hasher) IN
       /\ sd_jwt' = r.sd_jwt
       /\ builder' = r.builder
       /\ last' = [op |-> "into_presentation", path |-> <<>>, arg |-> -1,
                   result |-> r.result, ret |-> <<hasher>>]
       /\ pc' = IF r.result = "Ok" THEN "builder" ELSE "builder_error"
  /\ UNCHANGED <<object, nsalt, salt_length, issued, out, text>>

(* builder.conceal(path)?; an Err or a panic ends the program. *)
PresentationConceal(path) ==
  /\ pc = "builder"
  /\ LET r == BuilderConceal(builder, path) IN
       /\ builder' = r.builder
       /\ last' = [op |-> "builder_conceal", path |-> path, arg |-> -1,
                   result |-> r.result, ret |-> r.digests]
       /\ pc' = CASE r.result = "Ok" -> "builder"
                   [] r.result = "panic" -> "panicked"
                   [] OTHER -> "builder_error"
  /\ UNCHANGED <<object, nsalt, salt_length, issued, given, sd_jwt, out, text>>

(* builder.attach_key_binding_jwt(kb_jwt) *)
AttachKeyBindingJwt ==
  /\ pc = "builder"
  /\ sd_jwt' = attach_key_binding_jwt(sd_jwt, "kb-jwt")
  /\ last' = [op |-> "attach_key_binding_jwt", path |-> <<>>, arg |-> -1,
              result |-> "Ok", ret |-> <<>>]
  /\ UNCHANGED <<pc, object, nsalt, salt_length, issued, given, builder, out, text>>

(* builder.finish()? *)
Finish ==
  /\ pc = "builder"
  /\ LET r == BuilderFinish(sd_jwt, builder) IN
       /\ out' = r.ret
       /\ last' = [op |-> "finish", path |-> <<>>, arg |-> -1,
                   result |-> r.result, ret |-> <<>>]
       /\ pc' = CASE r.result = "Ok" -> "finished"
                   [] r.result = "panic" -> "panicked"
                   [] OTHER -> "builder_error"
  /\ UNCHANGED <<object, nsalt, salt_length, issued, given, sd_jwt, builder, text>>

(* The paths given to conceal: it is called on a builder only.             *)
ConcealPaths == IF pc = "builder" THEN BuilderPaths ELSE {}

HolderNext ==
  \/ \E write \in ClaimsWrites : ClaimsMut(write)
  \/ \E hasher \in Hashers : IntoPresentation(hasher)
  \/ \E path \in ConcealPaths : PresentationConceal(path)
  \/ AttachKeyBindingJwt
  \/ Finish

SpecBuilder == HolderInit /\ [][HolderNext]_vars

(* ------------------------ compact serialization ----------------------- *)
(* A text is a sequence of symbols: "~" is the separator character, every  *)
(* other symbol stands for a run of characters without "~".                *)
TILDE == "~"

(* The texts of the Jwt, Disclosure and KeyBindingJwt values in use: their *)
(* Display gives the text they were parsed from, and parsing a text gives  *)
(* the value back; no other segment parses.                                *)
KnownJwt == [header |-> Header, claims |-> ClaimsOf(ArrayObject(Sha256Hasher), <<>>, <<>>)]
KnownDisclosures == ArrayDisclosures(Sha256Hasher)
DisclosureTexts == <<"D1", "D2">>

JwtToString(jwt) == <<"J">>
JwtParse(segment) == IF segment = <<"J">> THEN <<KnownJwt>> ELSE <<>>
KbToString(kb) == <<"K">>
KbParse(segment) == IF segment = <<"K">> THEN <<"kb-jwt">> ELSE <<>>
DisclosureToString(d) ==
  <<DisclosureTexts[CHOOSE i \in 1..Len(KnownDisclosures) : KnownDisclosures[i] = d]>>
DisclosureParse(segment) ==
  IF Len(segment) = 1 /\ \E i \in 1..Len(DisclosureTexts) : DisclosureTexts[i] = segment[1]
    THEN <<KnownDisclosures[CHOOSE i \in 1..Len(DisclosureTexts) : DisclosureTexts[i] = segment[1]]>>
    ELSE <<>>

(* Itertools::join(texts, "~") *)
RECURSIVE Join(_)
Join(texts) ==
  IF texts = <<>> THEN <<>>
  ELSE IF Len(texts) = 1 THEN texts[1]
  ELSE texts[1] \o <<TILDE>> \o Join(Tail(texts))

(* The split as str::split_terminator('~') would do it: no empty segment   *)
(* after a final separator.                                                *)
RECURSIVE SplitTerminator(_)
SplitTerminator(txt) ==
  IF txt = <<>> THEN <<>>
  ELSE IF \A i \in 1..Len(txt) : txt[i] # TILDE THEN <<txt>>
  ELSE LET at == CHOOSE i \in 1..Len(txt) :
                   txt[i] = TILDE /\ \A j \in 1..(i - 1) : txt[j] # TILDE
       IN <<SubSeq(txt, 1, at - 1)>> \o SplitTerminator(SubSeq(txt, at + 1, Len(txt)))

(* str::split('~'): the segments between the separators, at least one. *)
RECURSIVE Split(_)
Split(txt) ==
  IF \A i \in 1..Len(txt) : txt[i] # TILDE THEN <<txt>>
  ELSE LET at == CHOOSE i \in 1..Len(txt) :
                   txt[i] = TILDE /\ \A j \in 1..(i - 1) : txt[j] # TILDE
       IN <<SubSeq(txt, 1, at - 1)>> \o Split(SubSeq(txt, at + 1, Len(txt)))

(* presentation as it would be without the case of an empty disclosure    *)
(* list: always JWT, disclosures and key binding, each followed by "~".    *)
presentationOneForm(sd) ==
  LET disclosures == Join([i \in 1..Len(sd.disclosures) |-> DisclosureToString(sd.disclosures[i])])
      key_bindings == IF sd.key_binding_jwt = <<>> THEN <<>> ELSE KbToString(sd.key_binding_jwt[1])
  IN JwtToString(sd.jwt) \o <<TILDE>> \o disclosures \o <<TILDE>> \o key_bindings

(* SdJwt::presentation / Display *)
presentation(sd) ==
  LET disclosures == Join([i \in 1..Len(sd.disclosures) |-> DisclosureToString(sd.disclosures[i])])
      key_bindings == IF sd.key_binding_jwt = <<>> THEN <<>> ELSE KbToString(sd.key_binding_jwt[1])
  IN IF disclosures = <<>>
       THEN JwtToString(sd.jwt) \o <<TILDE>> \o key_bindings
       ELSE JwtToString(sd.jwt) \o <<TILDE>> \o disclosures \o <<TILDE>> \o key_bindings

(* SdJwt::parse / FromStr *)
parse(txt) ==
  LET sd_segments == Split(txt)
      num_of_segments == Len(sd_segments)
  IN IF num_of_segments < 2
       THEN [result |-> "DeserializationError", sd_jwt |-> NoSdJwt]
       ELSE LET jwt == JwtParse(sd_segments[1])
                middle == SubSeq(sd_segments, 2, num_of_segments - 1)
                disclosures == [i \in 1..Len(middle) |-> DisclosureParse(middle[i])]
                final == sd_segments[num_of_segments]
                key_binding_jwt == IF final = <<>> THEN <<>> ELSE KbParse(final)
            IN IF jwt = <<>>
                 THEN [result |-> "DeserializationError", sd_jwt |-> NoSdJwt]
               ELSE IF \E i \in 1..Len(disclosures) : disclosures[i] = <<>>
                 THEN [result |-> "InvalidDisclosure", sd_jwt |-> NoSdJwt]
               ELSE IF final # <<>> /\ key_binding_jwt = <<>>
                 THEN [result |-> "DeserializationError", sd_jwt |-> NoSdJwt]
               ELSE [result |-> "Ok",
                     sd_jwt |-> SdJwt(jwt[1],
                                      [i \in 1..Len(disclosures) |-> disclosures[i][1]],
                                      key_binding_jwt)]

(* ----------------------- the serialization program -------------------- *)
Alphabet == {TILDE, "J", "D1", "D2", "K"}
Texts == UNION {[1..n -> Alphabet] : n \in 0..MaxTextLen}
ListedDisclosures ==
  UNION {[1..n -> {KnownDisclosures[i] : i \in 1..Len(KnownDisclosures)}] : n \in 0..MaxListed}
SerialValues == {SdJwt(KnownJwt, ds, kb) : ds \in ListedDisclosures, kb \in KeyBindings}

SerialInit ==
  /\ \/ pc = "text" /\ text \in Texts /\ given = text /\ sd_jwt = NoSdJwt
     \/ pc = "value" /\ sd_jwt \in SerialValues /\ given = sd_jwt /\ text = <<>>
  /\ builder = NoBuilder
  /\ out = <<>>
  /\ last = NoCall
  /\ object = EmptyMap
  /\ nsalt = 0
  /\ salt_length = DEFAULT_SALT_SIZE
  /\ issued = <<>>

(* SdJwt::parse(text): of the text given, or of the one just presented. *)
Parse ==
  /\ pc \in {"text", "presented"}
  /\ LET r == parse(text) IN
       /\ sd_jwt' = r.sd_jwt
       /\ last' = [op |-> "parse", path |-> <<>>, arg |-> Len(Split(text)),
                   result |-> r.result, ret |-> <<>>]
       /\ pc' = IF r.result = "Ok"
                  THEN (IF pc = "text" THEN "parsed" ELSE "reparsed")
                  ELSE (IF pc = "text" THEN "parse_error" ELSE "reparse_error")
  /\ UNCHANGED <<object, nsalt, salt_length, issued, given, builder, out, text>>

(* sd_jwt.to_string(): of the value given, or of the one just parsed. *)
Serialize ==
  /\ pc \in {"value", "parsed"}
  /\ text' = presentation(sd_jwt)
  /\ last' = [op |-> "to_string", path |-> <<>>, arg |-> -1, result |-> "Ok", ret |-> <<>>]
  /\ pc' = IF pc = "value" THEN "presented" ELSE "reserialized"
  /\ UNCHANGED <<object, nsalt, salt_length, issued, given, sd_jwt, builder, out>>

SerialNext == Parse \/ Serialize

SpecSerial == SerialInit /\ [][SerialNext]_vars

(* ======================= properties of the encoder ==================== *)
Range(seq) == {seq[i] : i \in 1..Len(seq)}

(* The `_sd` array of a map as a sequence of values, empty when absent. *)
SdOf(m) == IF Has(m, DIGESTS_KEY) /\ IsArr(m[DIGESTS_KEY]) THEN m[DIGESTS_KEY].v ELSE <<>>

(* The parent map and the final key an encoder path designates. *)
TargetOf(obj, path) == get_target_property_and_its_parent(obj, path)
ParentIn(obj, path) == MapAt(obj, TargetOf(obj, path).parent)

(* C1: conceal is all-or-nothing: a call that succeeds has removed the     *)
(* value into the returned disclosure and put its digest in the parent's   *)
(* `_sd`; a call that fails (DataTypeMismatch on a non-array `_sd`         *)
(* included) leaves the encoder's object exactly as it was.                *)
C1_ConcealAllOrNothing ==
  [][(pc \in EncoderPcs /\ last'.op = "conceal") =>
       IF last'.result = "Ok"
         THEN /\ last'.ret[1].claim_value = ParentIn(object, last'.path)[TargetOf(object, last'.path).target]
              /\ ValueString(encoded_digest(Sha256Hasher, last'.ret[1])) \in Range(SdOf(ParentIn(object', last'.path)))
         ELSE object' = object]_vars

(* C5: a successful conceal removes the key from its parent, appends one   *)
(* digest at the end of the parent's `_sd` (created when absent), changes  *)
(* nothing else, and returns (salt, final segment, removed value), whose   *)
(* digest is the one appended.                                             *)
C5_ConcealEffect ==
  [][(pc \in EncoderPcs /\ last'.op = "conceal" /\ last'.result = "Ok") =>
       LET key == TargetOf(object, last'.path).target
           before == ParentIn(object, last'.path)
           after == ParentIn(object', last'.path)
           disclosure == last'.ret[1]
       IN /\ ~Has(after, key)
          /\ Has(after, DIGESTS_KEY) /\ IsArr(after[DIGESTS_KEY])
          /\ SdOf(after) = Append(SdOf(before), ValueString(encoded_digest(Sha256Hasher, disclosure)))
          /\ DOMAIN after = ((DOMAIN before) \ {key}) \cup {DIGESTS_KEY}
          /\ \A k \in (DOMAIN before) \ {key, DIGESTS_KEY} : after[k] = before[k]
          /\ object' = WriteAt(object, TargetOf(object, last'.path).parent, after)
          /\ disclosure.claim_name = <<last'.path[Len(last'.path)]>>
          /\ disclosure.claim_value = before[key]
          /\ disclosure.salt = gen_rand(salt_length, nsalt')]_vars

(* C6: a successful conceal_array_entry(path, i) writes {"...": digest}    *)
(* into slot i only: same length, same other elements, same rest of the   *)
(* object; the disclosure returned has no claim name and holds the element *)
(* that was at slot i.                                                     *)
C6_ArrayEntryInPlace ==
  [][(pc \in EncoderPcs /\ last'.op = "conceal_array_entry" /\ last'.result = "Ok") =>
       LET key == TargetOf(object, last'.path).target
           before == ParentIn(object, last'.path)[key].v
           after == ParentIn(object', last'.path)[key]
           disclosure == last'.ret[1]
           i == last'.arg + 1
       IN /\ IsArr(after)
          /\ Len(after.v) = Len(before)
          /\ after.v[i] = Obj([k \in {ARRAY_DIGEST_KEY} |-> ValueString(encoded_digest(Sha256Hasher, disclosure))])
          /\ \A j \in 1..Len(before) : j # i => after.v[j] = before[j]
          /\ object' = WriteAt(object, TargetOf(object, last'.path).parent,
                               MapInsert(ParentIn(object, last'.path), key, after))
          /\ disclosure.claim_name = <<>>
          /\ disclosure.claim_value = before[i]]_vars

(* A conceal_array_entry call that succeeded on the second slot. *)
C6_Witness ==
  /\ pc = "encoder_returned"
  /\ last.op = "conceal_array_entry" /\ last.result = "Ok" /\ last.arg = 1
  /\ ParentIn(object, last.path)[last.path[Len(last.path)]].v[2]
       = Obj([k \in {ARRAY_DIGEST_KEY} |-> ValueString(encoded_digest(Sha256Hasher, last.ret[1]))])

(* The container add_decoys(path) points to: the top level for the empty   *)
(* path, else the value of the final key.                                  *)
DecoyTarget(obj, path) ==
  IF path = <<>> THEN Obj(obj) ELSE ParentIn(obj, path)[TargetOf(obj, path).target]

IsDecoyDigest(val) ==
  val.t = "dig" /\ val.v.input.claim_name = <<>> /\ val.v.input.claim_value = Str("decoy")

(* Successful top-level conceal calls, and decoys added at the top level. *)
RECURSIVE TopConceals(_), TopDecoys(_)
TopConceals(calls) ==
  IF calls = <<>> THEN 0
  ELSE TopConceals(Tail(calls))
       + (IF Head(calls).op = "conceal" /\ Len(Head(calls).path) = 1 THEN 1 ELSE 0)
TopDecoys(calls) ==
  IF calls = <<>> THEN 0
  ELSE TopDecoys(Tail(calls))
       + (IF Head(calls).op = "add_decoys" /\ Head(calls).path = <<>> THEN Head(calls).made ELSE 0)

(* C10, the call: a successful add_decoys(path, n) appends exactly n       *)
(* digests to the `_sd` of a target object (created when absent), or n     *)
(* entries {"...": digest} to a target array, and changes nothing else.    *)
C10_DecoysCall ==
  (pc \in EncoderPcs /\ last'.op = "add_decoys" /\ last'.result = "Ok") =>
    LET before == DecoyTarget(object, last'.path)
        after == DecoyTarget(object', last'.path)
        n == last'.arg
    IN /\ last'.ret = <<>>
       /\ IsObj(before) =>
            /\ IsObj(after)
            /\ Len(SdOf(after.v)) = Len(SdOf(before.v)) + n
            /\ SubSeq(SdOf(after.v), 1, Len(SdOf(before.v))) = SdOf(before.v)
            /\ \A j \in (Len(SdOf(before.v)) + 1)..Len(SdOf(after.v)) : IsDecoyDigest(SdOf(after.v)[j])
            /\ MapRemove(after.v, DIGESTS_KEY) = MapRemove(before.v, DIGESTS_KEY)
       /\ IsArr(before) =>
            /\ IsArr(after)
            /\ Len(after.v) = Len(before.v) + n
            /\ SubSeq(after.v, 1, Len(before.v)) = before.v
            /\ \A j \in (Len(before.v) + 1)..Len(after.v) :
                 /\ IsObj(after.v[j]) /\ DOMAIN after.v[j].v = {ARRAY_DIGEST_KEY}
                 /\ IsDecoyDigest(after.v[j].v[ARRAY_DIGEST_KEY])
       /\ last'.path # <<>> =>
            object' = WriteAt(object, TargetOf(object, last'.path).parent,
                              MapInsert(ParentIn(object, last'.path),
                                        TargetOf(object, last'.path).target, after))

(* C10, the consequence: on an encoder whose object came without `_sd`,    *)
(* after k successful top-level conceal calls and n top-level decoys the   *)
(* top-level `_sd` has length k + n.                                       *)
C10_TopLevelCount ==
  (pc' \in SuccessfulPcs /\ ~Has(given, DIGESTS_KEY)) =>
    Len(SdOf(object')) = TopConceals(issued') + TopDecoys(issued')

(* C10: add_decoys adds exactly n digests to the pointed container and     *)
(* nothing else, so the top-level `_sd` counts the top-level conceal calls *)
(* and the top-level decoys.                                               *)
C10_DecoysExact == [][C10_DecoysCall /\ C10_TopLevelCount]_vars

(* The array conceal_array_entry(path, ..) points to: <<elements>> when    *)
(* the path leads through objects to an existing array, else <<>>.         *)
ArrayAt(obj, path) ==
  IF path = <<>> \/ TargetOf(obj, path).result # "Ok" THEN <<>>
  ELSE IF ~Has(ParentIn(obj, path), TargetOf(obj, path).target) THEN <<>>
  ELSE IF ~IsArr(ParentIn(obj, path)[TargetOf(obj, path).target]) THEN <<>>
  ELSE <<ParentIn(obj, path)[TargetOf(obj, path).target].v>>

(* C11: conceal_array_entry(path, i) on an existing array of length L with *)
(* i >= L fails with IndexOutofBounds carrying i and leaves the object     *)
(* unchanged, whatever calls succeeded before.                             *)
C11_IndexOutOfBounds ==
  [][(pc \in EncoderPcs /\ last'.op = "conceal_array_entry"
        /\ ArrayAt(object, last'.path) # <<>>
        /\ last'.arg >= Len(ArrayAt(object, last'.path)[1])) =>
       /\ last'.result = "IndexOutofBounds"
       /\ last'.ret = <<last'.arg>>
       /\ object' = object
       /\ issued' = issued]_vars

(* The call of the encoder's test: after a successful conceal of another   *)
(* path, index 2 on the two-element array claim2 is refused.               *)
C11_Witness ==
  /\ pc = "encoder_error"
  /\ issued # <<>> /\ issued[1].op = "conceal"
  /\ last.op = "conceal_array_entry" /\ last.path = <<"claim2">> /\ last.arg = 2
  /\ last.result = "IndexOutofBounds" /\ last.ret = <<2>>
  /\ Len(ArrayAt(object, last.path)[1]) = 2

(* An encoder path that is empty, names a property that does not exist at  *)
(* some segment, or passes through a string or a boolean before its end.   *)
RECURSIVE PathFault(_, _)
PathFault(m, path) ==
  IF path = <<>> THEN TRUE
  ELSE IF ~Has(m, Head(path)) THEN TRUE
  ELSE IF Len(path) = 1 THEN FALSE
  ELSE IF IsObj(m[Head(path)]) THEN PathFault(m[Head(path)].v, Tail(path))
  ELSE ~IsArr(m[Head(path)])

(* C12: conceal and conceal_array_entry return InvalidPath and leave the   *)
(* object unchanged for a path that is empty, names a missing property at  *)
(* any segment, or passes through a primitive.                             *)
C12_InvalidPathUnchanged ==
  [][(pc \in EncoderPcs /\ last'.op \in {"conceal", "conceal_array_entry"}
        /\ PathFault(object, last'.path)) =>
       /\ last'.result = "InvalidPath"
       /\ last'.ret = <<>>
       /\ object' = object
       /\ issued' = issued]_vars

(* After a successful call, a conceal through the string "id" was refused. *)
C12_Witness ==
  /\ pc = "encoder_error"
  /\ issued # <<>>
  /\ last.op = "conceal" /\ last.path = <<"id", "abc">>
  /\ Has(object, "id") /\ IsStr(object["id"])
  /\ last.result = "InvalidPath"

(* ================= properties of the presentation builder ============= *)
(* The digests a value holds: the strings of every `_sd` array and of      *)
(* every "..." placeholder, at any depth.                                  *)
RECURSIVE DigestsIn(_)
DigestsIn(value) ==
  IF IsObj(value)
    THEN Range(SdStrings(value.v))
         \cup (IF Has(value.v, ARRAY_DIGEST_KEY) /\ IsStr(value.v[ARRAY_DIGEST_KEY])
                THEN {AsStr(value.v[ARRAY_DIGEST_KEY])} ELSE {})
         \cup UNION {DigestsIn(value.v[k]) : k \in DOMAIN value.v}
  ELSE IF IsArr(value) THEN UNION {DigestsIn(value.v[i]) : i \in 1..Len(value.v)}
  ELSE {}

(* The digests transitively reachable from a value: those it holds and,    *)
(* through the disclosures they point to, those their claim values hold.   *)
RECURSIVE Reachable(_, _)
Reachable(value, dm) ==
  LET direct == DigestsIn(value)
  IN direct \cup UNION {Reachable(IndexGet(dm, d)[1].claim_value, dm) :
                          d \in {x \in direct : IndexGet(dm, x) # <<>>}}

(* The index map of the given disclosures under a hasher. *)
GivenIndex(hasher) == index_collect(hasher, given.disclosures, <<>>)

(* C2: after conceal calls and finish(), the returned disclosures contain  *)
(* neither a removed disclosure nor any disclosure whose digest (under     *)
(* the hasher that made the digests) is transitively reachable from a      *)
(* removed disclosure's claim value.                                       *)
C2_NoNestedDisclosureLeft ==
  pc = "finished" =>
    \A i \in 1..Len(out[2]) : \A j \in 1..Len(out[1].disclosures) :
       /\ out[1].disclosures[j] # out[2][i]
       /\ \A hasher \in Hashers :
            encoded_digest(hasher, out[1].disclosures[j])
              \notin Reachable(out[2][i].claim_value, GivenIndex(hasher))

(* The value the builder's traversal reaches before the final segment of   *)
(* the path: <<value>>, or <<>> when the traversal fails on the way.       *)
RECURSIVE ParentValue(_, _, _)
ParentValue(value, path, dm) ==
  IF Len(path) <= 1 THEN <<value>>
  ELSE IF IsObj(value)
    THEN LET found == find_disclosure(value.v, Head(path), dm)
             disclosed == IF found = <<>> THEN <<>> ELSE IndexGet(dm, found[1])
         IN IF Has(value.v, Head(path)) THEN ParentValue(value.v[Head(path)], Tail(path), dm)
            ELSE IF disclosed = <<>> THEN <<>>
            ELSE ParentValue(disclosed[1].claim_value, Tail(path), dm)
  ELSE IF IsArr(value)
    THEN IF ParseUsize(Head(path)) < 0 \/ ParseUsize(Head(path)) >= Len(value.v) THEN <<>>
         ELSE ParentValue(value.v[ParseUsize(Head(path)) + 1], Tail(path), dm)
  ELSE <<>>

(* An array entry {"...": digest} whose digest has a disclosure in the map. *)
IsDisclosedEntry(entry, dm) ==
  /\ IsObj(entry) /\ DOMAIN entry.v = {ARRAY_DIGEST_KEY} /\ IsStr(entry.v[ARRAY_DIGEST_KEY])
  /\ IndexGet(dm, AsStr(entry.v[ARRAY_DIGEST_KEY])) # <<>>

(* The final segment names nothing concealable in the parent: no digest of *)
(* the object's `_sd` has a disclosure with that claim name; or the index  *)
(* is out of bounds, or the entry is a literal or a placeholder without a  *)
(* disclosure in the map.                                                  *)
NotConcealable(parent, key, dm) ==
  \/ /\ IsObj(parent)
     /\ \A digest \in Range(SdStrings(parent.v)) :
          IndexGet(dm, digest) = <<>> \/ IndexGet(dm, digest)[1].claim_name # <<key>>
  \/ /\ IsArr(parent)
     /\ \/ ParseUsize(key) < 0
        \/ ParseUsize(key) >= Len(parent.v)
        \/ ~IsDisclosedEntry(parent.v[ParseUsize(key) + 1], dm)

(* C3: builder.conceal never panics, and returns InvalidPath, removing     *)
(* nothing, when the final segment names no claim whose disclosure is in   *)
(* the map.                                                                *)
C3_InvalidPathNotPanic ==
  [][(pc = "builder" /\ last'.op = "builder_conceal") =>
       LET parent == ParentValue(builder.object, last'.path, builder.disclosures)
           key == last'.path[Len(last'.path)]
       IN /\ last'.result # "panic"
          /\ (parent # <<>> /\ NotConcealable(parent[1], key, builder.disclosures)) =>
               (last'.result = "InvalidPath" /\ builder' = builder)]_vars

(* C4: when the segment before the last indexes an array entry             *)
(* {"...": d} whose disclosure is in the map, the last segment is resolved *)
(* against that disclosure's claim value: the call removes what concealing *)
(* the last segment in that value removes, and keeps the disclosure of d.  *)
C4_DescendsIntoDisclosedEntry ==
  [][(pc = "builder" /\ last'.op = "builder_conceal" /\ Len(last'.path) >= 2) =>
       LET n == Len(last'.path)
           dm == builder.disclosures
           arr == ParentValue(builder.object, SubSeq(last'.path, 1, n - 1), dm)
           index == ParseUsize(last'.path[n - 1])
       IN (/\ arr # <<>> /\ IsArr(arr[1])
           /\ index >= 0 /\ index < Len(arr[1].v)
           /\ IsDisclosedEntry(arr[1].v[index + 1], dm)) =>
            LET d == AsStr(arr[1].v[index + 1].v[ARRAY_DIGEST_KEY])
                expected == conceal(IndexGet(dm, d)[1].claim_value, <<last'.path[n]>>, dm)
            IN /\ last'.result = expected.result
               /\ last'.ret = expected.digests
               /\ IndexGet(builder'.disclosures, d) # <<>>]_vars

(* The disclosures finish() returned are the given ones with the removed   *)
(* ones excised, in the given order; every given disclosure is in exactly  *)
(* one of the two returned lists, once.                                    *)
Excised ==
  /\ out[1].disclosures = SelectSeq(given.disclosures, LAMBDA d : d \notin Range(out[2]))
  /\ \A d \in Range(given.disclosures) :
       (d \in Range(out[1].disclosures)) # (d \in Range(out[2]))
  /\ Range(out[1].disclosures) \cup Range(out[2]) \subseteq Range(given.disclosures)
  /\ Cardinality(Range(out[1].disclosures)) = Len(out[1].disclosures)
  /\ Cardinality(Range(out[2])) = Len(out[2])

(* C7: the disclosures finish() returns are the disclosures of the SdJwt   *)
(* into_presentation was called on with the removed ones excised, in that  *)
(* SdJwt's order: none is reordered, duplicated or lost.                   *)
C7_StableOrder == pc = "finished" => Excised

(* The same for an SdJwt that lists no disclosure twice. *)
C7_StableOrderOfDistinct ==
  (pc = "finished" /\ Cardinality(Range(given.disclosures)) = Len(given.disclosures))
    => Excised

(* The header and the claims finish() returned are those of the SdJwt      *)
(* into_presentation was called on.                                        *)
SameClaims ==
  /\ out[1].jwt.header = given.jwt.header
  /\ out[1].jwt.claims.sd = given.jwt.claims.sd
  /\ out[1].jwt.claims.sd_alg = given.jwt.claims.sd_alg
  /\ out[1].jwt.claims.cnf = given.jwt.claims.cnf
  /\ out[1].jwt.claims.properties = given.jwt.claims.properties

(* C8: the SdJwt finish() returns has the header and the claims of the     *)
(* SdJwt into_presentation was called on: `_sd` digests in order,          *)
(* `_sd_alg`, `cnf` and other properties.                                  *)
C8_ClaimsUntouched == pc = "finished" => SameClaims

(* The same for claims whose other properties hold no `_sd`. *)
C8_ClaimsUntouchedWithoutSdProperty ==
  (pc = "finished" /\ ~Has(given.jwt.claims.properties, DIGESTS_KEY)) => SameClaims

(* C13: finish() fails with MissingKeyBindingJwt exactly when the claims    *)
(* handed to into_presentation carry `cnf` (issued with it or given it      *)
(* through claims_mut) and the SD-JWT has no key-binding JWT then, and      *)
(* succeeds otherwise, whatever hasher made the builder and whatever was    *)
(* written to the other properties; attach_key_binding_jwt puts one in      *)
(* place, and no later call of the builder takes it away.                   *)
C13_MissingKeyBinding ==
  [][pc = "builder" =>
       /\ last'.op = "finish" =>
            /\ last'.result \in {"Ok", "MissingKeyBindingJwt"}
            /\ last'.result = "MissingKeyBindingJwt"
                 <=> (given.jwt.claims.cnf # <<>> /\ sd_jwt.key_binding_jwt = <<>>)
            /\ last'.result = "Ok" <=> pc' = "finished"
       /\ last'.op = "attach_key_binding_jwt" => sd_jwt'.key_binding_jwt # <<>>
       /\ sd_jwt.key_binding_jwt # <<>> => sd_jwt'.key_binding_jwt # <<>>]_vars

(* finish() succeeded on claims with `cnf` issued without key-binding JWT, *)
(* one attached and a claim concealed on the way.                          *)
C13_Witness ==
  /\ pc = "finished"
  /\ given.jwt.claims.cnf # <<>> /\ given.key_binding_jwt = <<>>
  /\ out[1].key_binding_jwt = <<"kb-jwt">>
  /\ out[2] # <<>>

(* C14: constructing the builder fails with InvalidHasher exactly when the *)
(* hasher's alg_name differs from the `_sd_alg` the claims have then, an   *)
(* absent `_sd_alg` counting as "sha-256"; otherwise it gives a builder.   *)
C14_InvalidHasher ==
  [][(pc = "holder" /\ last'.op = "into_presentation") =>
       LET alg_name == last'.ret[1].alg_name
           required == IF sd_jwt.jwt.claims.sd_alg = <<>> THEN "sha-256"
                       ELSE sd_jwt.jwt.claims.sd_alg[1]
       IN /\ last'.result \in {"Ok", "InvalidHasher"}
          /\ last'.result = "InvalidHasher" <=> alg_name # required
          /\ last'.result = "Ok" <=> (pc' = "builder" /\ builder' # NoBuilder)
          /\ last'.result = "InvalidHasher" => (pc' = "builder_error" /\ builder' = NoBuilder)]_vars

(* Claims without `_sd_alg` and a SHA-512 hasher: construction refused. *)
C14_Witness ==
  /\ pc = "builder_error"
  /\ last.op = "into_presentation" /\ last.ret = <<Sha512Hasher>>
  /\ given.jwt.claims.sd_alg = <<>>
  /\ last.result = "InvalidHasher"

(* ================ properties of the compact serialization ============= *)
(* C9: parsing the serialization of an SdJwt value succeeds and gives the  *)
(* value back; serializing what a text parsed to gives the text back; and  *)
(* a serialization without key-binding JWT ends with "~".                  *)
C9_RoundTrip ==
  /\ pc # "reparse_error"
  /\ pc = "reparsed" => sd_jwt = given
  /\ pc = "reserialized" => text = given
  /\ (pc \in {"presented", "reserialized"} /\ sd_jwt.key_binding_jwt = <<>>) =>
       text[Len(text)] = TILDE

(* The round trip of the encoder-test shape: a JWT, two disclosures and no *)
(* key-binding JWT, parsed and serialized again.                           *)
C9_Witness ==
  /\ pc = "reserialized"
  /\ Len(sd_jwt.disclosures) = 2
  /\ sd_jwt.key_binding_jwt = <<>>
  /\ text = <<"J", TILDE, "D1", TILDE, "D2", TILDE>>
  /\ text = given

(* The positions of "~" in a text, and the n-th of them. *)
Tildes(txt) == {i \in 1..Len(txt) : txt[i] = TILDE}
TildeAt(txt, n) == CHOOSE p \in Tildes(txt) : Cardinality({q \in Tildes(txt) : q < p}) = n - 1

(* C15: parse refuses a text without "~" with DeserializationError; a text *)
(* it accepts has the JWT before the first "~", one disclosure per segment *)
(* between the first and the last "~", in the order of the text, and a     *)
(* key-binding JWT exactly when something follows the last "~".            *)
C15_ParseSegments ==
  /\ (pc \in {"parsed", "parse_error"} /\ Tildes(given) = {}) =>
       (pc = "parse_error" /\ last.result = "DeserializationError")
  /\ pc = "parsed" =>
       LET n == Cardinality(Tildes(given))
           k == Len(sd_jwt.disclosures)
       IN /\ last.result = "Ok"
          /\ n = k + 1
          /\ JwtToString(sd_jwt.jwt) = SubSeq(given, 1, TildeAt(given, 1) - 1)
          /\ \A i \in 1..k :
               DisclosureToString(sd_jwt.disclosures[i])
                 = SubSeq(given, TildeAt(given, i) + 1, TildeAt(given, i + 1) - 1)
          /\ sd_jwt.key_binding_jwt # <<>> <=> TildeAt(given, n) < Len(given)
          /\ sd_jwt.key_binding_jwt # <<>> =>
               KbToString(sd_jwt.key_binding_jwt[1]) = SubSeq(given, TildeAt(given, n) + 1, Len(given))

(* A text of four segments, the last one empty, parsed: two disclosures in *)
(* the order of the text and no key-binding JWT.                           *)
C15_Witness ==
  /\ pc = "parsed"
  /\ given = <<"J", TILDE, "D2", TILDE, "D1", TILDE>>
  /\ sd_jwt.disclosures = <<KnownDisclosures[2], KnownDisclosures[1]>>
  /\ sd_jwt.key_binding_jwt = <<>>

(* ================= the encoder's disclosures stay in reach ============= *)
(* The disclosures the encoder returned so far, in call order. *)
Returned == SelectSeq([i \in 1..Len(issued) |-> issued[i].disclosure], LAMBDA d : d # <<>>)

(* The digest of the i-th returned disclosure is written in an `_sd` array *)
(* or a "..." placeholder of the encoder's object or of the claim value of *)
(* another returned disclosure.                                            *)
Recoverable(i) ==
  encoded_digest(Sha256Hasher, Returned[i][1])
    \in DigestsIn(Obj(object))
         \cup UNION {DigestsIn(Returned[j][1].claim_value) : j \in (1..Len(Returned)) \ {i}}

(* A call so far had the reserved key `_sd` in its path. *)
TouchedDigestsKey == \E i \in 1..Len(issued) : DIGESTS_KEY \in Range(issued[i].path)

(* C16: after any sequence of successful conceal, conceal_array_entry and  *)
(* add_decoys calls, every disclosure returned so far is recoverable.      *)
C16_DisclosuresRecoverable ==
  pc \in SuccessfulPcs => \A i \in 1..Len(Returned) : Recoverable(i)

(* The same, for call sequences that never name `_sd` in a path. *)
C16_RecoverableAwayFromSd ==
  (pc \in SuccessfulPcs /\ ~TouchedDigestsKey) => \A i \in 1..Len(Returned) : Recoverable(i)

====
